---- MODULE Spec2Model ----
(***************************************************************************)
(* State-machine model of the cairo backend of resvg                       *)
(* (src/render_cairo/mod.rs): render_to_image, render_to_canvas and the    *)
(* recursion render_group / render_group_impl, run on an explicit call     *)
(* stack.  The drawing surface (cairo), the leaf renderers, clip           *)
(* application and the Rect helpers live outside mod.rs; they are modelled *)
(* from their contracts and kept apart from the definitions translated     *)
(* from mod.rs.                                                            *)
(***************************************************************************)
EXTENDS Integers, Sequences, FiniteSets, TLC

\* ------------------------------------------------------------ bounds
\* Largest number of nodes below the root of a render tree.
MaxNodes == 3
\* Width in pixels of the output image (its height is one row).
ImgW == 4

\* Largest absolute value of a coefficient of a converted transform.
MaxCoef == 1

\* ------------------------------------------------------------ values
\* Stand-in for f64::MAX, the origin of the sentinel box of render_group.
F64_MAX == 1000

\* Fixed-point scale of a colour/alpha channel: One is 1.0, Half is 0.5.
One == 2^12
Half == One \div 2

None == [some |-> FALSE, v |-> 0]
Some(v) == [some |-> TRUE, v |-> v]

\* ------------------------------------------------------------ matrices
\* tree::Transform, six coefficients a..f.
Transform(a, b, c, d, e, f) == [a |-> a, b |-> b, c |-> c, d |-> d, e |-> e, f |-> f]

\* cairo::Matrix::new(xx, yx, xy, yy, x0, y0).
Matrix(xx, yx, xy, yy, x0, y0) ==
  [xx |-> xx, yx |-> yx, xy |-> xy, yy |-> yy, x0 |-> x0, y0 |-> y0]

\* cairo::Matrix::identity().
Identity == Matrix(1, 0, 0, 1, 0, 0)

\* A slip at line 47: b and c change places (row-major for column-major).
to_native_transposed(t) == Matrix(t.a, t.c, t.b, t.d, t.e, t.f)

\* ConvTransform::to_native: field-for-field a,b,c,d,e,f -> xx,yx,xy,yy,x0,y0.
to_native(t) == Matrix(t.a, t.b, t.c, t.d, t.e, t.f)

\* ConvTransform::from_native.
from_native(m) == Transform(m.xx, m.yx, m.xy, m.yy, m.x0, m.y0)

\* cairo_matrix_multiply(r, t, m): the map "t first, then m".
Multiply(t, m) ==
  Matrix(t.xx * m.xx + t.yx * m.xy,
         t.xx * m.yx + t.yx * m.yy,
         t.xy * m.xx + t.yy * m.xy,
         t.xy * m.yx + t.yy * m.yy,
         t.x0 * m.xx + t.y0 * m.xy + m.x0,
         t.x0 * m.yx + t.y0 * m.yy + m.y0)

\* cairo::Context::transform: t is applied before the current matrix.
CrTransform(ctm, t) == Multiply(t, ctm)

\* Device x and y of the user-space point (x, y) under m.
MapX(m, x, y) == m.xx * x + m.xy * y + m.x0
MapY(m, x, y) == m.yx * x + m.yy * y + m.y0

\* ------------------------------------------------------------ rectangles
\* Rect::from_xywh.
Rect(x, y, w, h) == [x |-> x, y |-> y, w |-> w, h |-> h]

Min(a, b) == IF a < b THEN a ELSE b
Max(a, b) == IF a > b THEN a ELSE b

\* The box render_group starts from (line 122).
SentinelBox == Rect(F64_MAX, F64_MAX, 0, 0)

\* Rect::expand_from_rect (math module): the union of the two boxes, the
\* sentinel that a union starts from giving way to the first box.
expand_from_rect(self, r) ==
  IF self = SentinelBox THEN r
  ELSE LET x0 == Min(self.x, r.x)
           y0 == Min(self.y, r.y)
           x1 == Max(self.x + self.w, r.x + r.w)
           y1 == Max(self.y + self.h, r.y + r.h)
       IN Rect(x0, y0, x1 - x0, y1 - y0)

\* Size::is_empty_or_negative on the size of the output image.
is_empty_or_negative(size) == size.width <= 0 \/ size.height <= 0

\* ------------------------------------------------------------ pixels
\* Premultiplied pixel: alpha a and one colour channel c, both in 0..One.
Px(a, c) == [a |-> a, c |-> c]
Transparent == Px(0, 0)

\* The pixel p with every channel multiplied by alpha.
ScalePx(p, alpha) == Px((p.a * alpha) \div One, (p.c * alpha) \div One)

\* Porter-Duff OVER on premultiplied pixels (cairo's default operator).
Over(s, d) == Px(s.a + (d.a * (One - s.a)) \div One,
                 s.c + (d.c * (One - s.a)) \div One)

Coords(w, h) == (0 .. (w - 1)) \X (0 .. (h - 1))

\* The source pattern of a context: cairo's default, a colour or pattern set
\* by a renderer, or a surface (set_source_surface), which the pattern keeps
\* referenced until the source is replaced or the context is destroyed.
DefaultSource == [kind |-> "default", node |-> <<>>]
OwnSource == [kind |-> "own", node |-> <<>>]
SurfaceSource(node) == [kind |-> "surface", node |-> node]

\* cairo::ImageSurface::create succeeded: a transparent w x h surface with a
\* fresh context (identity matrix, default source).
NewSurface(w, h) ==
  [w |-> w, h |-> h, matrix |-> Identity, source |-> DefaultSource,
   pix |-> [p \in Coords(w, h) |-> Transparent]]

\* Whether device pixel p lies in the image of the user-space box under m.
\* Every matrix of the model is a scale (positive) and a translation, so the
\* image of a box is the box between the images of its corners.
Covers(m, box, p) ==
  /\ MapX(m, box.x, box.y) <= p[1]
  /\ p[1] < MapX(m, box.x + box.w, box.y + box.h)
  /\ MapY(m, box.x, box.y) <= p[2]
  /\ p[2] < MapY(m, box.x + box.w, box.y + box.h)

\* cr.paint() / cr.paint_with_alpha(alpha) with a solid colour source set by
\* set_source_color(color, opacity): every pixel of the surface.
PaintColor(pix, color, alpha) ==
  [p \in DOMAIN pix |-> Over(Px(alpha, (color * alpha) \div One), pix[p])]

\* A leaf renderer's painting: the leaf's box, mapped by the current matrix,
\* filled with the leaf's colour at the leaf's own alpha.
PaintLeaf(pix, m, leaf) ==
  [p \in DOMAIN pix |->
     IF Covers(m, leaf.box, p)
     THEN Over(Px(leaf.alpha, (leaf.col * leaf.alpha) \div One), pix[p])
     ELSE pix[p]]

\* cr.set_source_surface(src, x, y) followed by paint_with_alpha(alpha) under
\* the matrix m: device pixel p shows the source pixel whose unit square, moved
\* by (x, y) and mapped by m, holds p; nothing is painted outside the source.
SourceAt(m, p, x, y) ==
  <<((p[1] - m.x0) \div m.xx) - x, ((p[2] - m.y0) \div m.yy) - y>>
PaintSurface(pix, m, src, x, y, alpha) ==
  [p \in DOMAIN pix |->
     IF SourceAt(m, p, x, y) \in DOMAIN src.pix
     THEN Over(ScalePx(src.pix[SourceAt(m, p, x, y)], alpha), pix[p])
     ELSE pix[p]]

\* clippath::apply: the pixels outside the clip geometry (given in the user
\* space of the surface's current matrix) become fully transparent.
ClipPixels(pix, m, cp) ==
  [p \in DOMAIN pix |-> IF Covers(m, cp.box, p) THEN pix[p] ELSE Transparent]

\* ------------------------------------------------------------ render tree
\* A node of the render tree: its kind, its local transform, the group
\* payload (opacity, clip_path), its children, and what a leaf renderer
\* needs (the leaf's own alpha, colour and box in its local coordinates).
Node(kind, ts, opacity, clip_path, kids, alpha, col, box) ==
  [kind |-> kind, ts |-> ts, opacity |-> opacity, clip_path |-> clip_path,
   kids |-> kids, alpha |-> alpha, col |-> col, box |-> box]

TsIdentity == Transform(1, 0, 0, 1, 0, 0)
TsTranslate == Transform(1, 0, 0, 1, 1, 0)
TsScale == Transform(2, 0, 0, 2, 0, 0)

\* The leaves the trees are built from: one per tree::NodeKind that
\* render_group dispatches on, and one of a kind it ignores.
LeafNodes ==
  { Node("Path", TsTranslate, None, None, <<>>, One, One, Rect(0, 0, 1, 1)),
    Node("Text", TsScale, None, None, <<>>, Half, Half, Rect(0, 0, 1, 1)),
    Node("Image", TsIdentity, None, None, <<>>, One, 0, Rect(1, 0, 1, 1)),
    Node("Other", TsTranslate, None, None, <<>>, One, One, Rect(0, 0, 1, 1)) }

\* The group payloads: plain; with opacity and a clip_path that resolves to a
\* node that is no clip path; with a clip_path that resolves to a clip path.
Group(g, kids) == [g EXCEPT !.kids = kids]
GroupNodes ==
  { Node("Group", TsTranslate, None, None, <<>>, One, One, SentinelBox),
    Node("Group", TsScale, Some(Half), Some(1), <<>>, One, One, SentinelBox),
    Node("Group", TsIdentity, None, Some(0), <<>>, One, One, SentinelBox) }

\* rtree.defs_at(idx): the definitions table, a clip path at index 0 and a
\* node of another kind at index 1.
defs_at(idx) ==
  IF idx = 0 THEN [kind |-> "ClipPath", box |-> Rect(0, 0, 2, 1)]
  ELSE [kind |-> "LinearGradient", box |-> SentinelBox]

RECURSIVE NodesOfSize(_), ForestsOfSize(_)
\* The nodes with exactly k nodes in their subtree, themselves included.
NodesOfSize(k) ==
  IF k = 1 THEN LeafNodes \cup GroupNodes
  ELSE {Group(g, kids) : g \in GroupNodes, kids \in ForestsOfSize(k - 1)}

\* The child lists with exactly n nodes in all.
ForestsOfSize(n) ==
  IF n = 0 THEN {<<>>}
  ELSE UNION {{<<nd>> \o rest : nd \in NodesOfSize(k), rest \in ForestsOfSize(n - k)} :
              k \in 1 .. n}

\* The render trees: the root's children, at most MaxNodes nodes in all.
RenderTrees == [kids : UNION {ForestsOfSize(n) : n \in 0 .. MaxNodes}]

\* Nodes are named by their path from the root: the child indices.
RECURSIVE NodeIn(_, _)
NodeIn(kids, path) ==
  IF Len(path) = 1 THEN kids[path[1]]
  ELSE NodeIn(kids[path[1]].kids, Tail(path))

IsPrefix(p, q) == Len(p) <= Len(q) /\ SubSeq(q, 1, Len(p)) = p

\* ------------------------------------------------------------ state
VARIABLES
  rtree,     \* the render tree being rendered (read-only)
  pc,        \* "idle", "render_to_canvas", "render_group", "done"; "conv" in ConvSpec
  call,      \* the entry point taken and its arguments
  result,    \* what the entry point returned: "none" before it returns
  surfaces,  \* the live surfaces: the root surface, then one per open nested group
  stack,     \* the open render_group calls, the root call first
  direct,    \* per open call: its children painted directly onto a copy of the parent
  log,       \* the drawing-surface operations performed so far, in order
  last       \* the details of the latest step

vars == <<rtree, pc, call, result, surfaces, stack, direct, log, last>>

\* The output sizes fit_to can hand to render_to_image, after the cast to
\* i32: the regular one, an empty one and a negative one.
ImgSize == [width |-> ImgW, height |-> 1]

\* The calls of render_to_image: the output size, opt.background (none, or a
\* colour), and vbt, the (dx, dy, sx, sy) that render_utils::view_box_transform
\* returns for the tree's view box and that size.
ImageCalls ==
  { [img_size |-> ImgSize, background |-> None, vbt |-> <<0, 0, 1, 1>>],
    [img_size |-> ImgSize, background |-> Some(Half), vbt |-> <<1, 0, 2, 2>>],
    [img_size |-> [width |-> 0, height |-> 0], background |-> Some(Half),
     vbt |-> <<0, 0, 1, 1>>],
    [img_size |-> [width |-> -1, height |-> 1], background |-> None,
     vbt |-> <<0, 0, 1, 1>>] }

\* The calls of render_to_canvas by a caller: a blank canvas of the size of
\* the viewport, or a wider one that is already painted and translated; and
\* vbt as above.
CanvasCalls ==
  { [cr |-> NewSurface(ImgW, 1), vbt |-> <<1, 0, 2, 2>>],
    [cr |-> [w |-> ImgW + 1, h |-> 1, matrix |-> Matrix(1, 0, 0, 1, 2, 0),
             source |-> OwnSource,
             pix |-> [p \in Coords(ImgW + 1, 1) |-> Px(One, Half)]],
     vbt |-> <<0, 0, 1, 1>>] }

Top == stack[Len(stack)]
TopNode == IF Top.node = <<>> THEN [kids |-> rtree.kids] ELSE NodeIn(rtree.kids, Top.node)
InLoop == pc = "render_group" /\ Top.stage = "loop" /\ Top.i <= Len(TopNode.kids)
Child == TopNode.kids[Top.i]
ChildPath == Append(Top.node, Top.i)

\* A render_group call as it starts (lines 115-122).
Frame(node, matrix) ==
  [node |-> node, matrix |-> matrix, i |-> 1, g_bbox |-> SentinelBox, stage |-> "loop"]

\* A drawing-surface operation: what was done, for which node, on the surface
\* of which group (<<>> is the root surface), under which matrix, with which
\* alpha, and the box handed over (clip application only).
Event(op, node, surf, matrix, alpha, bbox) ==
  [op |-> op, node |-> node, surf |-> surf, matrix |-> matrix, alpha |-> alpha,
   bbox |-> bbox]

Init ==
  /\ rtree \in RenderTrees
  /\ pc = "idle"
  /\ call = [entry |-> "none"]
  /\ result = "none"
  /\ surfaces = <<>>
  /\ stack = <<>>
  /\ direct = <<>>
  /\ log = <<>>
  /\ last = [op |-> "init"]

\* ------------------------------------------------------------ entry points
\* cairo::ImageSurface::create(ARgb32, w, h): cairo rejects a negative size;
\* any other size is created or not (created is the allocator's answer).
SurfaceCreated(size, created) == size.width >= 0 /\ size.height >= 0 /\ created

\* A slip at lines 77-82: the result is unwrapped without a look at it.
MatchSurfaceUnchecked(created) == "Ok"

\* Lines 77-82: the match on the result of ImageSurface::create.
MatchSurface(created) == IF created THEN "Ok" ELSE "Err"

\* A slip at lines 88-91: the background is never painted.
FillBackgroundSkipped(surface, background) == surface

\* The background fill of render_to_image (lines 88-91).
FillBackground(surface, background) ==
  IF background.some
  THEN [surface EXCEPT !.pix = PaintColor(surface.pix, background.v, One),
                       !.source = OwnSource]
  ELSE surface

\* render_to_image up to its call of render_to_canvas (lines 67-91).
render_to_image ==
  /\ pc = "idle"
  /\ \E opt \in ImageCalls, debug_assertions \in BOOLEAN, created \in BOOLEAN :
     LET img_size == opt.img_size
         background == opt.background
         surface == NewSurface(img_size.width, img_size.height)
         ok == SurfaceCreated(img_size, created)
     IN
       /\ call' = [entry |-> "image", img_size |-> img_size, background |-> background,
                   vbt |-> opt.vbt, before |-> Identity,
                   pix |-> FillBackground(surface, background).pix,
                   round |-> 1, first |-> Identity]
       /\ IF debug_assertions /\ is_empty_or_negative(img_size)
          THEN \* debug_assert! (line 69) panics
               /\ pc' = "done"
               /\ result' = "panic"
               /\ last' = [op |-> "panic"]
               /\ UNCHANGED <<surfaces, log>>
          ELSE IF MatchSurface(ok) = "Err"
          THEN \* lines 79-81
               /\ pc' = "done"
               /\ result' = "NoCanvas"
               /\ last' = [op |-> "NoCanvas", created |-> ok]
               /\ UNCHANGED <<surfaces, log>>
          ELSE /\ pc' = "render_to_canvas"
               /\ result' = "none"
               /\ surfaces' = <<FillBackground(surface, background)>>
               /\ log' = IF background.some
                         THEN <<Event("fill", <<>>, <<>>, surface.matrix, One, SentinelBox)>>
                         ELSE <<>>
               /\ last' = [op |-> "create", created |-> ok]
  /\ UNCHANGED <<rtree, stack, direct>>

\* The view-box matrix of render_to_canvas (lines 105-109).
ViewBoxMatrix(vbt) == Matrix(vbt[3], 0, 0, vbt[4], vbt[1], vbt[2])

\* render_to_canvas up to its call of render_group (lines 105-112), on the
\* canvas cr with the view-box transform vbt.
EnterCanvas(cr, vbt) ==
  LET m == CrTransform(cr.matrix, ViewBoxMatrix(vbt))
  IN /\ surfaces' = <<[cr EXCEPT !.matrix = m]>>
     /\ stack' = <<Frame(<<>>, m)>>
     /\ direct' = <<cr.pix>>
     /\ pc' = "render_group"
     /\ last' = [op |-> "render_to_canvas", before |-> cr.matrix]
     /\ UNCHANGED rtree

\* render_to_canvas: called by render_to_image on the canvas it created, or
\* by a caller on a canvas of its own.
render_to_canvas ==
  \/ /\ pc = "render_to_canvas"
     /\ EnterCanvas(surfaces[1], call.vbt)
     /\ UNCHANGED <<call, result, log>>
  \/ /\ pc = "idle"
     /\ \E c \in CanvasCalls :
          /\ EnterCanvas(c.cr, c.vbt)
          /\ call' = [entry |-> "canvas", img_size |-> ImgSize, background |-> None,
                      vbt |-> c.vbt, before |-> c.cr.matrix, pix |-> c.cr.pix,
                      round |-> 1, first |-> c.cr.matrix]
     /\ UNCHANGED <<result, log>>

\* The caller calls render_to_canvas once more, with the same arguments, on
\* the canvas as the first call left it; log starts anew with the call.
render_to_canvas_again ==
  /\ pc = "done"
  /\ call.entry = "canvas"
  /\ call.round = 1
  /\ EnterCanvas(surfaces[1], call.vbt)
  /\ call' = [call EXCEPT !.round = 2, !.before = surfaces[1].matrix,
                          !.pix = surfaces[1].pix]
  /\ result' = "none"
  /\ log' = <<>>

\* ------------------------------------------------------------ render_group
\* A slip at line 125: set_matrix in place of transform.
ChildMatrixReplaced(ctm, ts) == to_native(ts)

\* Line 125: cr.transform(node.transform().to_native()).
ChildMatrix(ctm, ts) == CrTransform(ctm, to_native(ts))

\* A slip at line 147: the matrix is left as the child set it.
RestoreMatrixSkipped(ctm, matrix) == ctm

\* Line 147: cr.set_matrix(*matrix), ctm being the matrix it overwrites.
RestoreMatrix(ctm, matrix) == matrix

\* A slip at lines 143-145: the returned box replaces g_bbox.
AccumulateLast(g_bbox, bbox) == IF bbox.some THEN bbox.v ELSE g_bbox

\* Lines 143-145: a returned box is accumulated into g_bbox, None is not.
Accumulate(g_bbox, bbox) ==
  IF bbox.some THEN expand_from_rect(g_bbox, bbox.v) ELSE g_bbox

\* A slip at lines 129-135: the leaf is drawn on the root surface.
LeafSurfaceRoot(k) == 1

\* The surface a leaf renderer is handed: cr, the surface of the call at
\* depth k of the stack (lines 129, 132, 135).
LeafSurface(k) == k

\* One iteration of render_group on a Path, Text or Image child: transform,
\* draw, expand, restore (lines 125-135 and 143-147).
render_leaf ==
  /\ InLoop
  /\ Child.kind \in {"Path", "Text", "Image"}
  /\ LET k == Len(stack)
         s == LeafSurface(k)
         m == ChildMatrix(surfaces[k].matrix, Child.ts)
         \* path::draw, text::draw, image::draw: paint the leaf under the current
         \* matrix and return its box in the coordinate space active at the call
         painted == [surfaces EXCEPT ![s].pix = PaintLeaf(@, m, Child),
                                     ![s].source = OwnSource]
         bbox == Child.box
     IN /\ surfaces' = [painted EXCEPT ![k].matrix = RestoreMatrix(m, Top.matrix)]
        /\ stack' = [stack EXCEPT ![k].g_bbox = Accumulate(@, Some(bbox)),
                                  ![k].i = @ + 1]
        /\ direct' = [direct EXCEPT ![k] = PaintLeaf(@, m, Child)]
        /\ log' = Append(log, Event("draw", ChildPath, stack[s].node, m, Child.alpha, bbox))
        /\ last' = [op |-> "draw", node |-> ChildPath, surf |-> Top.node,
                    entered |-> surfaces[k].matrix, restore |-> Top.matrix]
  /\ UNCHANGED <<rtree, pc, call, result>>

\* One iteration on a child of any other kind: no box (lines 125, 140, 147).
render_other ==
  /\ InLoop
  /\ Child.kind \notin {"Path", "Text", "Image", "Group"}
  /\ LET k == Len(stack)
         m == ChildMatrix(surfaces[k].matrix, Child.ts)
     IN /\ surfaces' = [surfaces EXCEPT ![k].matrix = RestoreMatrix(m, Top.matrix)]
        /\ stack' = [stack EXCEPT ![k].g_bbox = Accumulate(@, None), ![k].i = @ + 1]
        /\ last' = [op |-> "other", node |-> ChildPath, surf |-> Top.node,
                    entered |-> surfaces[k].matrix, restore |-> Top.matrix]
  /\ UNCHANGED <<rtree, pc, call, result, direct, log>>

\* ------------------------------------------------------------ render_group_impl
\* A slip at line 175: the matrix handed to the parent call is used.
SubMatrixOfCaller(cr_matrix, restore) == restore

\* Line 175: sub_cr.set_matrix(cr.get_matrix()); cr_matrix is the parent
\* surface's matrix at that point, restore the matrix the parent call was given.
SubMatrix(cr_matrix, restore) == cr_matrix

\* A slip at line 177: the parent call's own restore matrix is handed on.
SubRestoreOfCaller(cr_matrix, restore) == restore

\* Line 177: the restore matrix handed to the nested render_group call.
SubRestore(cr_matrix, restore) == cr_matrix

\* A slip at line 187: the paste is made under the active transform.
PasteMatrixKept(curr_matrix) == curr_matrix

\* Line 187: the matrix the parent surface is given for the paste.
PasteMatrix(curr_matrix) == Identity

\* Line 197: cr.set_matrix(curr_matrix), pm being the matrix of the paste.
PasteRestore(pm, curr_matrix) == curr_matrix

\* A slip at lines 191-195: the group is always pasted with cr.paint().
PasteAlphaOpaque(g) == One

\* Lines 191-195: the alpha of the paste.
PasteAlpha(g) == IF g.opacity.some THEN g.opacity.v ELSE One

\* A slip at line 181: the kind of the definition is not looked at.
HasClipUnchecked(g) == g.clip_path.some

\* Lines 179-181: the clip path the group's clip_path resolves to, if any.
HasClip(g) == g.clip_path.some /\ defs_at(g.clip_path.v).kind = "ClipPath"

\* A Group child whose offscreen surface is created: the child's transform,
\* the new surface and its matrix, and the nested call of render_group
\* (lines 125, 137-138, 160-177).
render_group_impl ==
  /\ InLoop
  /\ Child.kind = "Group"
  /\ \E created \in BOOLEAN :
       /\ SurfaceCreated(call.img_size, created)
       /\ LET k == Len(stack)
              m == ChildMatrix(surfaces[k].matrix, Child.ts)
              sub == [NewSurface(call.img_size.width, call.img_size.height)
                        EXCEPT !.matrix = SubMatrix(m, Top.matrix)]
          IN /\ surfaces' = Append([surfaces EXCEPT ![k].matrix = m], sub)
             /\ stack' = Append(stack, Frame(ChildPath, SubRestore(m, Top.matrix)))
             /\ direct' = Append(direct, surfaces[k].pix)
             /\ log' = Append(log, Event("create", ChildPath, ChildPath, sub.matrix,
                                         One, SentinelBox))
             /\ last' = [op |-> "enter", node |-> ChildPath, surf |-> Top.node,
                         entered |-> surfaces[k].matrix, restore |-> Top.matrix]
  /\ UNCHANGED <<rtree, pc, call, result>>

\* A slip at line 170: an empty box at the origin is returned.
FailedBoxEmpty(g) == Some(Rect(0, 0, 0, 0))

\* Line 170: what render_group_impl returns when the surface is not created.
FailedBox(g) == None

\* A Group child whose offscreen surface cannot be created: a warning, no
\* box, and the rest of the iteration (lines 125, 160-172, 143-147).
render_group_impl_failed ==
  /\ InLoop
  /\ Child.kind = "Group"
  /\ \E created \in BOOLEAN :
       /\ ~SurfaceCreated(call.img_size, created)
       /\ LET k == Len(stack)
              m == ChildMatrix(surfaces[k].matrix, Child.ts)
          IN /\ surfaces' = [surfaces EXCEPT ![k].matrix = RestoreMatrix(m, Top.matrix)]
             /\ stack' = [stack EXCEPT ![k].g_bbox = Accumulate(@, FailedBox(Child)),
                                       ![k].i = @ + 1]
             /\ log' = Append(log, Event("warn", ChildPath, Top.node, m, One, SentinelBox))
             /\ last' = [op |-> "failed", node |-> ChildPath, surf |-> Top.node,
                         entered |-> surfaces[k].matrix, restore |-> Top.matrix]
  /\ UNCHANGED <<rtree, pc, call, result, direct>>

\* Line 189: cr.set_source_surface(&sub_surface, 0.0, 0.0); nothing resets
\* the source before render_group_impl returns.
PasteSource(node) == SurfaceSource(node)

\* A slip at line 182: the clip is applied to the parent's context cr.
ClipSurfaceParent(k) == k - 1

\* Line 182: the surface clippath::apply is handed, sub_cr, the surface of the
\* call at depth k of the stack.
ClipSurface(k) == k

\* The nested render_group call returns its box to render_group_impl, which
\* applies the clip path if the group has one (lines 150, 177-184).
render_group_impl_clip ==
  /\ pc = "render_group"
  /\ Len(stack) > 1
  /\ Top.stage = "loop"
  /\ Top.i > Len(TopNode.kids)
  /\ LET k == Len(stack)
         g == TopNode
         bbox == Top.g_bbox
     IN /\ stack' = [stack EXCEPT ![k].stage = "paste"]
        /\ IF HasClip(g)
           THEN /\ surfaces' = [surfaces EXCEPT ![ClipSurface(k)].pix =
                       ClipPixels(@, surfaces[ClipSurface(k)].matrix,
                                  defs_at(g.clip_path.v)),
                                                ![ClipSurface(k)].source = OwnSource]
                /\ log' = Append(log, Event("clip", Top.node, stack[ClipSurface(k)].node,
                                            surfaces[ClipSurface(k)].matrix, One, bbox))
           ELSE UNCHANGED <<surfaces, log>>
        /\ last' = [op |-> "clip", node |-> Top.node, applied |-> HasClip(g)]
  /\ UNCHANGED <<rtree, pc, call, result, direct>>

\* render_group_impl pastes the offscreen surface onto the parent surface and
\* returns; the parent's iteration ends (lines 186-199 and 143-147).
render_group_impl_paste ==
  /\ pc = "render_group"
  /\ Len(stack) > 1
  /\ Top.stage = "paste"
  /\ LET k == Len(stack)
         g == TopNode
         bbox == Top.g_bbox
         curr_matrix == surfaces[k - 1].matrix
         pm == PasteMatrix(curr_matrix)
         alpha == PasteAlpha(g)
         pasted == PaintSurface(surfaces[k - 1].pix, pm, surfaces[k], 0, 0, alpha)
     IN /\ surfaces' = [SubSeq(surfaces, 1, k - 1) EXCEPT
                          ![k - 1].pix = pasted,
                          ![k - 1].source = PasteSource(Top.node),
                          ![k - 1].matrix = RestoreMatrix(PasteRestore(pm, curr_matrix),
                                                          stack[k - 1].matrix)]
        /\ stack' = [SubSeq(stack, 1, k - 1) EXCEPT
                          ![k - 1].g_bbox = Accumulate(@, Some(bbox)),
                          ![k - 1].i = @ + 1]
        /\ direct' = [SubSeq(direct, 1, k - 1) EXCEPT
                          ![k - 1] = PaintSurface(@, pm, surfaces[k], 0, 0, alpha)]
        /\ log' = Append(log, Event("paste", Top.node, stack[k - 1].node, pm, alpha, bbox))
        /\ last' = [op |-> "paste", node |-> Top.node, surf |-> stack[k - 1].node,
                    g |-> [opacity |-> g.opacity, clip_path |-> g.clip_path],
                    before |-> surfaces[k - 1].pix, after |-> pasted,
                    src |-> surfaces[k].pix, direct |-> direct[k],
                    entered |-> curr_matrix, restore |-> stack[k - 1].matrix,
                    returned |-> PasteRestore(pm, curr_matrix)]
  /\ UNCHANGED <<rtree, pc, call, result>>

\* A slip at line 113: the caller's matrix is put back (save and restore).
CanvasMatrixRestored(ctm, before) == before

\* Lines 112-113: render_to_canvas returns with the context's matrix as
\* render_group left it, ctm; before is the matrix it was called with.
CanvasMatrixLeft(ctm, before) == ctm

\* The root render_group call returns, then render_to_canvas and, if it was
\* the caller, render_to_image with Ok(surface) (lines 150, 112-113, 95).
render_to_canvas_return ==
  /\ pc = "render_group"
  /\ Len(stack) = 1
  /\ Top.i > Len(TopNode.kids)
  /\ pc' = "done"
  /\ result' = IF call.entry = "image" THEN "Ok" ELSE "unit"
  /\ stack' = <<>>
  /\ direct' = <<>>
  /\ last' = [op |-> "return", g_bbox |-> Top.g_bbox]
  /\ surfaces' = IF call.entry = "image"
                 THEN \* cr is dropped with its source, the surface is returned
                      [surfaces EXCEPT ![1].source = DefaultSource,
                                       ![1].matrix = CanvasMatrixLeft(@, call.before)]
                 ELSE [surfaces EXCEPT ![1].matrix = CanvasMatrixLeft(@, call.before)]
  /\ UNCHANGED <<rtree, call, log>>

Next ==
  \/ render_to_image
  \/ render_to_canvas
  \/ render_to_canvas_again
  \/ render_leaf
  \/ render_other
  \/ render_group_impl
  \/ render_group_impl_failed
  \/ render_group_impl_clip
  \/ render_group_impl_paste
  \/ render_to_canvas_return

Spec == Init /\ [][Next]_vars

\* ------------------------------------------------------------ conversions
\* The transform conversions on their own: a caller converts a tree transform
\* to a native matrix and back, or a native matrix to a tree transform and
\* back, for any six coefficients.
Coefs == (0 - MaxCoef) .. MaxCoef

ConvInit ==
  /\ rtree = [kids |-> <<>>]
  /\ pc = "conv"
  /\ call = [entry |-> "conv"]
  /\ result = "none"
  /\ surfaces = <<>>
  /\ stack = <<>>
  /\ direct = <<>>
  /\ log = <<>>
  /\ \E a, b, c, d, e, f \in Coefs :
       last = [op |-> "input", c |-> <<a, b, c, d, e, f>>]

\* tree::Transform -> cairo::Matrix -> tree::Transform (lines 46-52).
conv_tree ==
  /\ pc = "conv"
  /\ LET c == last.c
         t == Transform(c[1], c[2], c[3], c[4], c[5], c[6])
     IN last' = [op |-> "tree", in |-> t, mid |-> to_native(t),
                 out |-> from_native(to_native(t))]
  /\ pc' = "done"
  /\ UNCHANGED <<rtree, call, result, surfaces, stack, direct, log>>

\* cairo::Matrix -> tree::Transform -> cairo::Matrix (lines 46-52).
conv_native ==
  /\ pc = "conv"
  /\ LET c == last.c
         m == Matrix(c[1], c[2], c[3], c[4], c[5], c[6])
     IN last' = [op |-> "native", in |-> m, mid |-> from_native(m),
                 out |-> to_native(from_native(m))]
  /\ pc' = "done"
  /\ UNCHANGED <<rtree, call, result, surfaces, stack, direct, log>>

ConvNext ==
  \/ conv_tree
  \/ conv_native

ConvSpec == ConvInit /\ [][ConvNext]_vars

\* ------------------------------------------------------------ properties
\* The paint operations among the logged operations.
IsPaint(e) == e.op \in {"draw", "paste"}
Events(op) == {i \in 1 .. Len(log) : log[i].op = op}
Parent(path) == SubSeq(path, 1, Len(path) - 1)
Looping == pc = "render_group" /\ Top.stage = "loop"

RECURSIVE ComposedMatrix(_, _, _)
\* The matrix m composed, root to leaf, with the local transform of every
\* node on the path.
ComposedMatrix(m, kids, path) ==
  IF path = <<>> THEN m
  ELSE ComposedMatrix(Multiply(to_native(kids[path[1]].ts), m),
                      kids[path[1]].kids, Tail(path))

\* C1: in render_group, once a child has been processed (a leaf drawn, a
\* node of another kind skipped, a nested group pasted, a nested group whose
\* allocation failed), the surface's matrix equals the matrix the caller
\* supplied; so every sibling starts under the matrix the one before it
\* started under.
C1_MatrixRestored ==
  Looping =>
    /\ surfaces[Len(stack)].matrix = Top.matrix
    /\ last.op \in {"draw", "other", "failed"} => last.entered = Top.matrix

\* C1 witness: the second sibling, a drawn leaf with a transform of its own,
\* has just been processed inside a nested group.
C1_Witness ==
  /\ Looping
  /\ last.op = "draw"
  /\ Len(stack) = 2
  /\ Top.i = 3
  /\ NodeIn(rtree.kids, last.node).ts # TsIdentity
  /\ Top.matrix # Identity

\* C2 as stated: every leaf is drawn under the view-box transform composed
\* with the local transforms of its ancestors and its own.
C2_LeafMatrixFromViewBox ==
  \A i \in Events("draw") :
    log[i].matrix = ComposedMatrix(ViewBoxMatrix(call.vbt), rtree.kids, log[i].node)

\* C2 amended: every leaf is drawn under the matrix the surface had when
\* render_to_canvas was entered (the identity under render_to_image), composed
\* with the view-box transform, then with the local transform of each
\* ancestor group and with the leaf's own, each exactly once.
C2_LeafMatrix ==
  \A i \in Events("draw") :
    log[i].matrix =
      ComposedMatrix(Multiply(ViewBoxMatrix(call.vbt), call.before), rtree.kids, log[i].node)

\* C2 witness: a leaf two groups deep has been drawn under a view-box
\* transform that is not the identity.
C2_Witness ==
  /\ call.entry # "none"
  /\ call.vbt # <<0, 0, 1, 1>>
  /\ \E i \in Events("draw") : Len(log[i].node) = 3

\* C3 as stated: the offscreen surface of a nested group starts with the
\* matrix that was passed into the parent render_group call.
C3_SubMatrixIsCallerMatrix ==
  (pc = "render_group" /\ last.op = "enter") =>
    surfaces[Len(surfaces)].matrix = last.restore

\* C3 amended: the offscreen surface of a nested group starts with the parent
\* surface's matrix at the dispatch, which is the matrix passed into the
\* parent call composed with the nested group's own local transform; the
\* nested render_group call is given the same matrix to restore to.
C3_SubMatrix ==
  (pc = "render_group" /\ last.op = "enter") =>
    /\ surfaces[Len(surfaces)].matrix =
         Multiply(to_native(NodeIn(rtree.kids, last.node).ts), last.restore)
    /\ surfaces[Len(surfaces)].matrix = surfaces[Len(surfaces) - 1].matrix
    /\ Top.matrix = surfaces[Len(surfaces)].matrix

\* C3 witness: a group with a transform of its own, nested in another group,
\* has just been given its offscreen surface.
C3_Witness ==
  /\ pc = "render_group"
  /\ last.op = "enter"
  /\ Len(stack) = 3
  /\ NodeIn(rtree.kids, last.node).ts # TsIdentity
  /\ last.restore # Identity

RECURSIVE PathsIn(_, _)
\* The paths of all the nodes below the node at prefix, whose children are kids.
PathsIn(kids, prefix) ==
  UNION {{Append(prefix, i)} \cup PathsIn(kids[i].kids, Append(prefix, i)) :
         i \in 1 .. Len(kids)}

AllPaths == PathsIn(rtree.kids, <<>>)
KindOf(path) == NodeIn(rtree.kids, path).kind
IsLeafPath(path) == KindOf(path) \in {"Path", "Text", "Image"}
Below(p, q) == IsPrefix(p, q) /\ p # q
\* Document order of two nodes neither of which is below the other.
Before(p, q) ==
  \E k \in 1 .. Min(Len(p), Len(q)) :
    /\ p[k] < q[k]
    /\ \A l \in 1 .. (k - 1) : p[l] = q[l]
Paints == {i \in 1 .. Len(log) : IsPaint(log[i])}
NoFailure == Events("warn") = {}
\* The nodes skipped with a group whose offscreen surface could not be created.
Skipped(q) == \E i \in Events("warn") : IsPrefix(log[i].node, q)

\* C4: paint order is document order.  Every paint operation is made on the
\* surface of the group the painted node is a child of; no node is painted
\* twice; of two paint operations the earlier one is for a node that comes
\* earlier in document order or lies inside the group the later one pastes; a
\* group is pasted only once all its leaves are drawn; and when no
\* allocation fails, a finished render has drawn every leaf exactly once.
C4_PaintOrder ==
  /\ \A i \in Paints :
       /\ log[i].surf = Parent(log[i].node)
       /\ log[i].op = "draw" <=> IsLeafPath(log[i].node)
       /\ log[i].op = "paste" <=> KindOf(log[i].node) = "Group"
  /\ \A i, j \in Paints :
       i < j =>
         /\ log[i].node # log[j].node
         /\ ~Below(log[i].node, log[j].node)
         /\ ~Below(log[j].node, log[i].node) => Before(log[i].node, log[j].node)
  /\ \A j \in Events("paste") :
       \A q \in AllPaths :
         (/\ Below(log[j].node, q)
          /\ KindOf(q) \in {"Path", "Text", "Image", "Group"}
          /\ ~Skipped(q)) =>
           \E i \in Paints : i < j /\ log[i].node = q
  /\ (NoFailure /\ pc = "done" /\ result \in {"Ok", "unit"}) =>
       \A q \in AllPaths :
         KindOf(q) \in {"Path", "Text", "Image", "Group"} =>
           Cardinality({i \in Paints : log[i].node = q}) = 1

\* C4 witness: a finished render without failure in which a group holding a
\* leaf was pasted and a later sibling was painted after the paste.
C4_Witness ==
  /\ pc = "done"
  /\ NoFailure
  /\ \E i, j, k \in Paints :
       /\ i < j /\ j < k
       /\ log[i].op = "draw" /\ log[j].op = "paste" /\ log[k].op = "draw"
       /\ Below(log[j].node, log[i].node)
       /\ Parent(log[k].node) = Parent(log[j].node)

\* C5: for a group with no opacity and no clip-path, the parent surface
\* after the paste equals the parent surface with the group's children
\* painted directly onto it under the same matrices, whatever the parent held.
C5_IsolationIsNoOp ==
  (last.op = "paste" /\ ~last.g.opacity.some /\ ~last.g.clip_path.some) =>
    last.after = last.direct

\* The same, for a parent surface no wider than the offscreen surface.
C5_IsolationIsNoOpSameSize ==
  (/\ last.op = "paste" /\ ~last.g.opacity.some /\ ~last.g.clip_path.some
   /\ DOMAIN last.before = DOMAIN last.src) =>
    last.after = last.direct

Blank(pix) == \A p \in DOMAIN pix : pix[p] = Transparent

RECURSIVE Rendering(_, _, _, _, _, _)
\* What rendering the children kids of the node at path, from the i-th on,
\* makes of the pixels pix and the box bbox under the matrix m, the groups
\* whose allocation failed (and all below them) being absent from the tree.
Rendering(kids, path, i, pix, m, bbox) ==
  IF i > Len(kids) THEN [pix |-> pix, bbox |-> bbox]
  ELSE
    LET n == kids[i]
        q == Append(path, i)
        mq == Multiply(to_native(n.ts), m)
    IN IF Skipped(q) THEN Rendering(kids, path, i + 1, pix, m, bbox)
       ELSE IF n.kind \in {"Path", "Text", "Image"}
       THEN Rendering(kids, path, i + 1, PaintLeaf(pix, mq, n), m,
                      expand_from_rect(bbox, n.box))
       ELSE IF n.kind = "Group"
       THEN LET sub == Rendering(n.kids, q, 1,
                                 NewSurface(call.img_size.width, call.img_size.height).pix,
                                 mq, SentinelBox)
                shown == IF HasClip(n)
                         THEN ClipPixels(sub.pix, mq, defs_at(n.clip_path.v))
                         ELSE sub.pix
                alpha == IF n.opacity.some THEN n.opacity.v ELSE One
            IN Rendering(kids, path, i + 1,
                         PaintSurface(pix, Identity, [pix |-> shown], 0, 0, alpha), m,
                         expand_from_rect(bbox, sub.bbox))
       ELSE Rendering(kids, path, i + 1, pix, m, bbox)

WithoutFailed ==
  Rendering(rtree.kids, <<>>, 1, call.pix,
            Multiply(ViewBoxMatrix(call.vbt), call.before), SentinelBox)

\* The step in which a nested group's allocation fails.
FailedStep == last'.op = "failed" /\ last' # last

\* C7: when the offscreen surface of a nested group cannot be created, the
\* step leaves the pixels of every surface, the boxes, the stack and the set
\* of surfaces as they were, sets the parent surface's matrix to the restore
\* matrix and moves on to the next sibling; no operation is ever logged for
\* the group or a node below it (no draw, no clip, no paste); the render
\* goes on and ends normally; and the finished canvas and the root box are
\* those of the tree without the failed groups.
C7_FailureIsolated ==
  /\ [][FailedStep =>
          /\ Len(surfaces') = Len(surfaces)
          /\ \A k \in 1 .. Len(surfaces) : surfaces'[k].pix = surfaces[k].pix
          /\ \A k \in 1 .. (Len(surfaces) - 1) : surfaces'[k] = surfaces[k]
          /\ surfaces'[Len(surfaces)].matrix = Top.matrix
          /\ stack' = [stack EXCEPT ![Len(stack)].i = @ + 1]
          /\ direct' = direct
          /\ pc' = pc /\ result' = result
          /\ log' = Append(log, log'[Len(log')])
          /\ log'[Len(log')].op = "warn"]_vars
  /\ [](\A i \in Events("warn") :
          \A j \in 1 .. Len(log) : IsPrefix(log[i].node, log[j].node) => i = j)
  /\ [](~NoFailure =>
          /\ result \in {"none", "Ok", "unit"}
          /\ pc # "done" => ENABLED Next)
  /\ []((pc = "done" /\ result \in {"Ok", "unit"}) =>
          /\ surfaces[1].pix = WithoutFailed.pix
          /\ last.g_bbox = WithoutFailed.bbox)

\* C7 witness: a render has finished normally although the allocation failed
\* for a group with a child of its own, with a sibling drawn before it and a
\* sibling drawn after it.
C7_Witness ==
  /\ pc = "done"
  /\ result = "Ok"
  /\ \E f \in Events("warn") :
       /\ NodeIn(rtree.kids, log[f].node).kids # <<>>
       /\ \E j \in Events("draw") : j > f /\ Parent(log[j].node) = Parent(log[f].node)

\* C8: if the root canvas cannot be created, render_to_image returns NoCanvas
\* at once: no surface, nothing painted, render_to_canvas not entered, nothing
\* more happens; if it is created, render_to_image goes on and returns
\* Ok(surface), also when allocations of nested groups fail.
C8_NoCanvas ==
  /\ (last.op \in {"create", "NoCanvas"} /\ ~last.created) =>
       /\ result = "NoCanvas"
       /\ pc = "done"
  /\ result = "NoCanvas" =>
       /\ call.entry = "image"
       /\ last.op = "NoCanvas"
       /\ surfaces = <<>> /\ stack = <<>> /\ log = <<>>
       /\ ~ENABLED Next
  /\ (call.entry = "image" /\ surfaces # <<>>) =>
       /\ result \in {"none", "Ok"}
       /\ pc # "done" => ENABLED Next
       /\ pc = "done" => (result = "Ok" /\ Len(surfaces) = 1)

\* C8 witness: the canvas of a regular size could not be created.
C8_Witness ==
  /\ result = "NoCanvas"
  /\ call.img_size = ImgSize

\* C8, the converse: Ok(surface) has been returned although the allocation
\* of a nested group failed.
C8_OkDespiteFailure == result = "Ok" /\ ~NoFailure

\* C9: for an output size that is (0,0) or has a negative dimension,
\* render_to_image ends with the canvas-allocation error and no surface, and
\* in no other way.
C9_EmptySizeIsNoCanvas ==
  (call.entry = "image" /\ is_empty_or_negative(call.img_size)) =>
    /\ result = "NoCanvas"
    /\ surfaces = <<>>

\* What a call with such a size can end with.
C9_Outcomes ==
  (call.entry = "image" /\ is_empty_or_negative(call.img_size) /\ pc = "done") =>
    result \in {"panic", "NoCanvas", "Ok"}

\* C10: when render_to_image is given a background colour, the whole canvas
\* is painted with it at alpha 1.0, once, as the first operation, under the
\* identity matrix (before the view-box transform); with no background colour
\* the canvas is blank when render_to_canvas is entered and nothing is ever
\* filled.
C10_BackgroundFirst ==
  (call.entry = "image" /\ surfaces # <<>>) =>
    /\ \A p \in DOMAIN call.pix :
         call.pix[p] = IF call.background.some THEN Px(One, call.background.v)
                       ELSE Transparent
    /\ pc = "render_to_canvas" =>
         /\ surfaces[1].pix = call.pix
         /\ surfaces[1].matrix = Identity
    /\ IF call.background.some
       THEN /\ Events("fill") = {1}
            /\ log[1] = Event("fill", <<>>, <<>>, Identity, One, SentinelBox)
       ELSE Events("fill") = {}

\* C10 witness: a render with a background colour and a view-box transform
\* has finished, with a leaf drawn.
C10_Witness ==
  /\ pc = "done"
  /\ result = "Ok"
  /\ call.background.some
  /\ call.vbt # <<0, 0, 1, 1>>
  /\ call.img_size = ImgSize
  /\ Events("draw") # {}

\* The box render_group returns for the children of the group at path q,
\* rendered under the matrix m.
ChildrenBox(q, m) ==
  Rendering(NodeIn(rtree.kids, q).kids, q, 1,
            NewSurface(call.img_size.width, call.img_size.height).pix, m, SentinelBox).bbox

\* C11: the clip is applied only for a group whose clip_path resolves to a
\* clip path, once per group, on the group's own offscreen surface under that
\* surface's matrix, after every node below the group has been painted, right
\* before the group's paste, and with the box render_group returned for the
\* group's children; a group without such a reference is pasted with no clip
\* applied.
C11_ClipOnce ==
  /\ \A i \in Events("clip") :
       /\ KindOf(log[i].node) = "Group"
       /\ HasClip(NodeIn(rtree.kids, log[i].node))
       /\ log[i].surf = log[i].node
       /\ log[i].bbox = ChildrenBox(log[i].node, log[i].matrix)
       /\ \A j \in Events("clip") : log[j].node = log[i].node => i = j
       /\ \A j \in 1 .. Len(log) :
            (Below(log[i].node, log[j].node) \/ (log[j].op = "create" /\ log[j].node = log[i].node))
              => j < i
       /\ \A j \in Events("paste") : log[j].node = log[i].node => j = i + 1
       /\ \A q \in AllPaths :
            (Below(log[i].node, q) /\ KindOf(q) \in {"Path", "Text", "Image", "Group"}
             /\ ~Skipped(q)) => \E j \in Paints : j < i /\ log[j].node = q
  /\ \A j \in Events("paste") :
       IF HasClip(NodeIn(rtree.kids, log[j].node))
       THEN j > 1 /\ log[j - 1].op = "clip" /\ log[j - 1].node = log[j].node
       ELSE \A i \in Events("clip") : log[i].node # log[j].node
  /\ (last.op = "clip" /\ last.applied) =>
       /\ log[Len(log)].op = "clip"
       /\ log[Len(log)].node = Top.node
       /\ log[Len(log)].matrix = surfaces[Len(stack)].matrix
       /\ log[Len(log)].bbox = Top.g_bbox

\* C11 witness: a group with a clip path and two painted children, the later
\* one a group, has been clipped and then pasted.
C11_Witness ==
  \E i \in Events("clip") :
    /\ i + 1 \in Events("paste")
    /\ log[i].bbox # SentinelBox
    /\ \E j, k \in Paints :
         /\ j < k /\ k < i
         /\ Parent(log[j].node) = log[i].node
         /\ Parent(log[k].node) = log[i].node
         /\ log[k].op = "paste"

\* The offscreen surfaces that are alive: those an open render_group_impl
\* call holds, and those the source pattern of a live context still references.
LiveOffscreen ==
  {stack[k].node : k \in 2 .. Len(stack)}
    \cup {surfaces[k].source.node :
            k \in {j \in 1 .. Len(surfaces) : surfaces[j].source.kind = "surface"}}

\* C12: no offscreen surface outlives the render_group_impl call that created
\* it: the live offscreen surfaces are those of the open nested calls, as
\* many as the stack is deep below the root call, none once render_to_canvas
\* has returned; and the root surface stays the one the render started with.
C12_NoSurfaceOutlives ==
  /\ pc = "render_group" =>
       /\ LiveOffscreen = {stack[k].node : k \in 2 .. Len(stack)}
       /\ Cardinality(LiveOffscreen) = Len(stack) - 1
  /\ (pc = "done" /\ result \in {"Ok", "unit"}) => LiveOffscreen = {}
  /\ surfaces # <<>> => DOMAIN surfaces[1].pix = DOMAIN call.pix

\* What holds of the handles: every open nested call holds one surface, a
\* call that has returned holds none, and the root surface is never replaced.
C12_HandlesScoped ==
  /\ pc = "render_group" => Len(surfaces) = Len(stack)
  /\ (pc = "done" /\ result \in {"Ok", "unit"}) => Len(surfaces) = 1
  /\ Cardinality(Events("create")) - Cardinality(Events("paste")) = Len(stack) - 1
       \/ stack = <<>>
  /\ surfaces # <<>> => DOMAIN surfaces[1].pix = DOMAIN call.pix

\* C13: a nested group whose surface was created is pasted onto its parent
\* surface once and only after the creation; the paste is made under the
\* identity matrix with the source at (0,0), so every parent pixel receives
\* the offscreen pixel of the same coordinates, whatever transform was active;
\* the alpha is the group's opacity, or full opacity when it has none; and
\* when render_group_impl returns the parent's matrix is the one it had right
\* before the paste step.
C13_PasteAtOrigin ==
  /\ \A j \in Events("paste") :
       /\ log[j].matrix = Identity
       /\ log[j].alpha = IF NodeIn(rtree.kids, log[j].node).opacity.some
                         THEN NodeIn(rtree.kids, log[j].node).opacity.v
                         ELSE One
       /\ Cardinality({i \in Events("paste") : log[i].node = log[j].node}) = 1
       /\ Cardinality({i \in Events("create") : log[i].node = log[j].node /\ i < j}) = 1
  /\ \A i \in Events("create") :
       \/ \E j \in Events("paste") : log[j].node = log[i].node
       \/ \E k \in 2 .. Len(stack) : stack[k].node = log[i].node
  /\ last.op = "paste" =>
       /\ \A p \in DOMAIN last.after :
            last.after[p] =
              IF p \in DOMAIN last.src
              THEN Over(ScalePx(last.src[p],
                                IF last.g.opacity.some THEN last.g.opacity.v ELSE One),
                        last.before[p])
              ELSE last.before[p]
       /\ last.returned = last.entered
       /\ log[Len(log)].op = "paste" /\ log[Len(log)].node = last.node

\* C13 witness: a group without opacity, entered under a scaled and translated
\* matrix, has been pasted with content onto a parent that held content.
C13_Witness ==
  /\ last.op = "paste"
  /\ ~last.g.opacity.some
  /\ last.entered.xx # 1
  /\ last.entered.x0 # 0
  /\ ~Blank(last.src)
  /\ ~Blank(last.before)
  /\ last.after # last.before

\* The smallest box that encloses every box of the set S; the sentinel box
\* for the empty set.
SetMin(S) == CHOOSE x \in S : \A y \in S : x <= y
SetMax(S) == CHOOSE x \in S : \A y \in S : x >= y
UnionOfBoxes(S) ==
  IF S = {} THEN SentinelBox
  ELSE LET x0 == SetMin({b.x : b \in S})
           y0 == SetMin({b.y : b \in S})
           x1 == SetMax({b.x + b.w : b \in S})
           y1 == SetMax({b.y + b.h : b \in S})
       IN Rect(x0, y0, x1 - x0, y1 - y0)

\* The boxes the leaf renderers returned for the first n children of kids.
LeafBoxes(kids, n) ==
  {kids[j].box : j \in {l \in 1 .. n : kids[l].kind \in {"Path", "Text", "Image"}}}

\* C14: in a render_group call on a group whose children are all leaves, the
\* box accumulated so far is the exact union of the boxes the leaf renderers
\* have returned (the sentinel box while there is none), and so is the box
\* returned; the union of a set does not depend on the order of the children.
C14_ExactUnion ==
  (/\ pc = "render_group"
   /\ Top.stage = "loop"
   /\ \A j \in 1 .. Len(TopNode.kids) : TopNode.kids[j].kind # "Group") =>
    Top.g_bbox = UnionOfBoxes(LeafBoxes(TopNode.kids, Top.i - 1))

\* C14 witness: a nested group has drawn two leaves with disjoint boxes, the
\* one further right first, and a child that is no leaf renderer's.
C14_Witness ==
  /\ pc = "render_group"
  /\ Len(stack) = 2
  /\ Top.stage = "loop"
  /\ Top.i > Len(TopNode.kids)
  /\ Len(TopNode.kids) >= 2
  /\ TopNode.kids[1].kind = "Image"
  /\ TopNode.kids[2].kind = "Path"
  /\ Top.g_bbox = Rect(0, 0, 2, 1)

RECURSIVE Contributes(_)
\* Whether the node n has a leaf renderer's box to contribute.
Contributes(n) ==
  \/ n.kind \in {"Path", "Text", "Image"}
  \/ n.kind = "Group" /\ \E j \in 1 .. Len(n.kids) : Contributes(n.kids[j])

\* C15: a render_group call with no contributing children returns a box of
\* zero area, and in a call whose group children contribute nothing the box
\* accumulated is the union of the boxes of the other children, never a box
\* of maximal extent.
C15_EmptyGroupNeutral ==
  (/\ pc = "render_group"
   /\ Top.stage = "loop"
   /\ \A j \in 1 .. Len(TopNode.kids) :
        TopNode.kids[j].kind = "Group" => ~Contributes(TopNode.kids[j])) =>
    /\ Top.g_bbox = UnionOfBoxes(LeafBoxes(TopNode.kids, Top.i - 1))
    /\ Top.g_bbox.x + Top.g_bbox.w < F64_MAX \/ Top.g_bbox = SentinelBox

\* What holds: a call with no contributing children returns the sentinel box.
C15_EmptyIsSentinel ==
  (/\ pc = "render_group"
   /\ Top.stage = "loop"
   /\ \A j \in 1 .. Len(TopNode.kids) : ~Contributes(TopNode.kids[j])) =>
    Top.g_bbox = SentinelBox

\* The box in the space of the matrix m, mapped out of it (m being a positive
\* scale and a translation).
MapBox(m, box) ==
  Rect(MapX(m, box.x, box.y), MapY(m, box.x, box.y), m.xx * box.w, m.yy * box.h)

\* The extents of the leaves drawn below the node at path q, each mapped by
\* the local transforms between the leaf and q into the coordinate space
\* render_group was invoked in for q.
PaintedExtents(q) ==
  {MapBox(ComposedMatrix(Identity,
                         IF q = <<>> THEN rtree.kids ELSE NodeIn(rtree.kids, q).kids,
                         SubSeq(log[i].node, Len(q) + 1, Len(log[i].node))),
          log[i].bbox) :
     i \in {j \in Events("draw") : Below(q, log[j].node)}}

\* C16: the box a render_group call returns is the union of the extents of
\* everything painted in it, in the coordinate space active when the call
\* was made: every leaf's box mapped by the local transforms of the leaf and
\* of the groups between it and the call.
C16_BoxInInvocationSpace ==
  (/\ pc = "render_group"
   /\ Top.stage = "loop"
   /\ Top.i > Len(TopNode.kids)) =>
    Top.g_bbox = UnionOfBoxes(PaintedExtents(Top.node))

\* What holds of a call whose children are drawn leaves only: the box is the
\* union of the leaves' boxes, each in the leaf's own coordinate space.
C16_BoxOfLocalBoxes ==
  (/\ pc = "render_group"
   /\ Top.stage = "loop"
   /\ Top.i > Len(TopNode.kids)
   /\ \A j \in 1 .. Len(TopNode.kids) : TopNode.kids[j].kind # "Group") =>
    Top.g_bbox = UnionOfBoxes({log[i].bbox :
                                 i \in {j \in Events("draw") : Parent(log[j].node) = Top.node}})

\* C17: the conversion is field for field, a, b, c, d, e, f to xx, yx, xy,
\* yy, x0, y0 and back, with no coefficient changed, so that converting a
\* tree transform to a native matrix and back, or a native matrix to a tree
\* transform and back, gives the value started from.
C17_RoundTrip ==
  /\ last.op = "tree" =>
       /\ last.out = last.in
       /\ last.mid = [xx |-> last.in.a, yx |-> last.in.b, xy |-> last.in.c,
                      yy |-> last.in.d, x0 |-> last.in.e, y0 |-> last.in.f]
  /\ last.op = "native" =>
       /\ last.out = last.in
       /\ last.mid = [a |-> last.in.xx, b |-> last.in.yx, c |-> last.in.xy,
                      d |-> last.in.yy, e |-> last.in.x0, f |-> last.in.y0]

\* C17 witness: a transform with a skew, a scale and a translation, unequal
\* where a swap of two fields would show, has gone to native and back.
C17_Witness ==
  /\ last.op = "tree"
  /\ last.in.b # last.in.c
  /\ last.in.a # last.in.d
  /\ last.in.e # last.in.f
  /\ last.in.a # last.in.e
  /\ last.in.b # 0

\* A group whose clip_path resolves to a definition that is no clip path.
NoClipRef(g) == g.clip_path.some /\ defs_at(g.clip_path.v).kind # "ClipPath"

\* C18: for a group whose clip_path resolves to a definition that is no clip
\* path, the clip step changes no surface and applies nothing; the group is
\* then pasted onto the parent with its opacity, its box is accumulated by
\* the parent call, which moves on to the next sibling; no clip is ever
\* logged for such a group, and the render goes on.
C18_NoClipTolerated ==
  /\ [][(pc = "render_group" /\ Top.stage = "loop" /\ Top.i > Len(TopNode.kids)
         /\ Len(stack) > 1 /\ NoClipRef(TopNode)) =>
          /\ surfaces' = surfaces
          /\ log' = log
          /\ stack' = [stack EXCEPT ![Len(stack)].stage = "paste"]
          /\ ~last'.applied]_vars
  /\ [][(pc = "render_group" /\ Top.stage = "paste" /\ NoClipRef(TopNode)) =>
          /\ Len(stack') = Len(stack) - 1
          /\ stack'[Len(stack')].i = stack[Len(stack')].i + 1
          /\ stack'[Len(stack')].g_bbox =
               expand_from_rect(stack[Len(stack')].g_bbox, Top.g_bbox)
          /\ last'.op = "paste"
          /\ last'.src = surfaces[Len(stack)].pix
          /\ \A p \in DOMAIN last'.after :
               last'.after[p] =
                 IF p \in DOMAIN last'.src
                 THEN Over(ScalePx(last'.src[p],
                                   IF TopNode.opacity.some THEN TopNode.opacity.v ELSE One),
                           last'.before[p])
                 ELSE last'.before[p]
          /\ surfaces'[Len(stack')].pix = last'.after
          /\ pc' = "render_group"]_vars
  /\ [](\A i \in Events("clip") : ~NoClipRef(NodeIn(rtree.kids, log[i].node)))
  /\ []((pc = "render_group" /\ Len(stack) > 1 /\ NoClipRef(TopNode)) => ENABLED Next)

\* C18 witness: a group with opacity whose clip_path resolves to no clip path
\* has been pasted with its content showing, and a sibling is still to come.
C18_Witness ==
  /\ last.op = "paste"
  /\ NoClipRef(last.g)
  /\ last.g.opacity.some
  /\ ~Blank(last.src)
  /\ last.after # last.before
  /\ pc = "render_group"
  /\ Top.i <= Len(TopNode.kids)

\* C19: when a render_group call starts, from render_to_canvas or from
\* render_group_impl, the matrix of the surface it is given equals the
\* restore matrix it is given; and when its loop is over the surface's matrix
\* equals that matrix again, also when the group has no children.
C19_EntryMatrix ==
  /\ (pc = "render_group" /\ last.op \in {"render_to_canvas", "enter"}) =>
       /\ Top.i = 1
       /\ Top.stage = "loop"
       /\ Len(surfaces) = Len(stack)
       /\ surfaces[Len(stack)].matrix = Top.matrix
  /\ (pc = "render_group" /\ last.op = "render_to_canvas") =>
       Top.matrix = Multiply(ViewBoxMatrix(call.vbt), call.before)
  /\ (pc = "render_group" /\ Top.i > Len(TopNode.kids)) =>
       surfaces[Len(stack)].matrix = Top.matrix

\* C19 witness: a nested group with a transform of its own and no children
\* has just been entered, and its loop is over at once.
C19_Witness ==
  /\ pc = "render_group"
  /\ last.op = "enter"
  /\ Len(stack) = 3
  /\ TopNode.kids = <<>>
  /\ Top.i > Len(TopNode.kids)
  /\ Top.matrix # stack[Len(stack) - 1].matrix

\* C20: render_to_canvas leaves the surface's matrix as the matrix it had
\* before the call composed with the view-box transform, for every tree; a
\* second call on the same surface therefore starts from that matrix and
\* draws its leaves under the view-box transform applied twice.
C20_MatrixNotRestored ==
  /\ (pc = "done" /\ result \in {"Ok", "unit"}) =>
       surfaces[1].matrix = Multiply(ViewBoxMatrix(call.vbt), call.before)
  /\ (call.entry = "canvas" /\ call.round = 2) =>
       /\ call.before = Multiply(ViewBoxMatrix(call.vbt), call.first)
       /\ \A i \in Events("draw") :
            log[i].matrix =
              ComposedMatrix(Multiply(ViewBoxMatrix(call.vbt),
                                      Multiply(ViewBoxMatrix(call.vbt), call.first)),
                             rtree.kids, log[i].node)

\* C20 witness: the second of two calls with a view-box transform that is not
\* the identity has drawn a leaf and returned.
C20_Witness ==
  /\ pc = "done"
  /\ call.entry = "canvas"
  /\ call.round = 2
  /\ call.vbt # <<0, 0, 1, 1>>
  /\ Events("draw") # {}
  /\ surfaces[1].matrix # call.first
  /\ surfaces[1].matrix # call.before

\* C20 witness for the empty tree: the matrix has moved all the same.
C20_EmptyTree ==
  /\ pc = "done"
  /\ rtree.kids = <<>>
  /\ call.entry = "canvas"
  /\ surfaces[1].matrix # call.before

====
